---------------------------- MODULE Spec2Model ----------------------------
(***************************************************************************)
(* Five programs of the repository, each with its own variables and its    *)
(* own specification; a specification of one program leaves the variables  *)
(* of the others at their idle values.                                     *)
(*                                                                         *)
(* Selective Repeat ARQ simulator (src/03_selective_repeat_arq).           *)
(* One SelectiveRepeatARQ object, the thread that executes run(), one      *)
(* send_frame thread per channel attempt and one timer_thread per admitted *)
(* frame.  Blocks executed under `with self.lock` are atomic with respect  *)
(* to each other; a block that contains no loop over shared input is one   *)
(* action guarded by the lock being free, and the admission loop of run()  *)
(* holds the lock over several steps.  time.sleep is modelled by the       *)
(* interleaving: a sleeping thread simply takes its next step later.       *)
(*                                                                         *)
(* Distance vector simulator (src/04_distance_vector_routing): a single    *)
(* thread; one action per receive_update call and per loop boundary.       *)
(*                                                                         *)
(* OSPF link state simulator (src/05_ospf_link_state): a single thread;    *)
(* one action per flood_lsa call and per loop boundary.                    *)
(*                                                                         *)
(* Chat server (src/01_async_tcp_chat/server.py): one handle_client        *)
(* coroutine per connection on one event loop; an action is the code a     *)
(* coroutine executes from one await to the next.                          *)
(*                                                                         *)
(* VLSM allocator (src/08_vlsm_allocator/vlsm.py): the function            *)
(* allocate_vlsm, one action per iteration of its allocation loop, over an *)
(* address space of AddressBits bits instead of 32.                        *)
(***************************************************************************)
EXTENDS Integers, Sequences, FiniteSets, TLC

\* Largest total_frames explored; window_size ranges over 1..total_frames.
MaxFrames == 3

\* LOSS_PROBABILITY in percent: a reliable channel, the value of the source
\* (0.2) and a channel that drops everything.
LossChoices == {0, 20, 100}

\* Values of random.random(), in percent of [0, 1).
RandomDraws == {10, 50}

VARIABLES
  \* Selective Repeat ARQ
  total_frames,      \* self.total_frames
  window_size,       \* self.window_size
  LOSS_PROBABILITY,  \* module constant, in percent
  base,              \* self.base
  next_seq_num,      \* self.next_seq_num
  ack_received,      \* self.ack_received
  lock,              \* self.lock: "free" or the holder
  pc,                \* position of the thread executing run()
  attempts,          \* attempts[s][i]: the i-th send_frame thread of seq s
  timer,             \* timer[s]: the timer_thread of seq s
  \* Distance vector
  topology,          \* the argument of Network.__init__
  max_rounds,        \* the argument of run_until_convergence
  nodes,             \* Network.nodes: name -> distance_vector, routing_table
  round_no,          \* loop variable of run_until_convergence
  updated,           \* local of run_until_convergence
  updates,           \* local of run_until_convergence: the vectors sent
  exchange,          \* the <<node, neighbor>> pairs the exchange loops still visit
  dv_pc,             \* position in run_until_convergence
  \* OSPF
  network_topology,  \* the argument of simulate_ospf
  routers,           \* local of simulate_ospf: name -> topology_db
  rounds,            \* local of simulate_ospf
  flooding,          \* the routers the flooding loop still visits
  ospf_pc,           \* position in simulate_ospf
  \* Chat server
  rooms,             \* module global: room name -> set of <<writer, username>>
  clients,           \* module global: writer -> username
  handler,           \* handler[w]: position of the handle_client coroutine of w
  username,          \* username[w]: local of handle_client
  joined_room,       \* joined_room[w]: local of handle_client
  snapshot,          \* snapshot[w]: entries broadcast() still iterates over
  recipient,         \* recipient[w]: loop variable w of broadcast()
  \* VLSM allocator
  base_net,          \* the argument base_net of allocate_vlsm
  requirements,      \* the argument requirements of allocate_vlsm
  reqs,              \* the <<req, idx>> pairs the allocation loop still visits
  allocations,       \* local of allocate_vlsm
  current_address,   \* local of allocate_vlsm
  results,           \* the value allocate_vlsm returned
  vlsm_pc            \* position in allocate_vlsm

arqVars == <<total_frames, window_size, LOSS_PROBABILITY, base, next_seq_num,
             ack_received, lock, pc, attempts, timer>>

dvVars == <<topology, max_rounds, nodes, round_no, updated, updates,
            exchange, dv_pc>>

ospfVars == <<network_topology, routers, rounds, flooding, ospf_pc>>

chatVars == <<rooms, clients, handler, username, joined_room, snapshot,
              recipient>>

vlsmVars == <<base_net, requirements, reqs, allocations, current_address,
              results, vlsm_pc>>

vars == <<arqVars, dvVars, ospfVars, chatVars, vlsmVars>>

AllSeqs == 0 .. (MaxFrames - 1)

\* range(total_frames): the indices of ack_received
Frames == 0 .. (total_frames - 1)

AttemptStates == {"start", "delay", "lost", "done"}

TypeOK ==
  /\ total_frames \in 1 .. MaxFrames
  /\ window_size \in 1 .. total_frames
  /\ LOSS_PROBABILITY \in LossChoices
  /\ base \in Nat
  /\ next_seq_num \in Nat
  /\ ack_received \in [Frames -> BOOLEAN]
  /\ lock \in {"free", "run"}
  /\ pc \in {"test", "acquire", "admit", "sleep", "done"}
  /\ DOMAIN attempts = Frames
  /\ \A s \in Frames :
       \A i \in 1 .. Len(attempts[s]) : attempts[s][i] \in AttemptStates
  /\ timer \in [Frames -> {"none", "armed", "expired"}]

\* SelectiveRepeatARQ.__init__: the object as constructed, no thread started.
\* [False] * total_frames is the empty list when total_frames < 1.
Constructed ==
  /\ base = 0
  /\ next_seq_num = 0
  /\ ack_received = [s \in Frames |-> FALSE]
  /\ lock = "free"
  /\ pc = "test"
  /\ attempts = [s \in Frames |-> <<>>]
  /\ timer = [s \in Frames |-> "none"]

\* No SelectiveRepeatARQ object is in use.
ArqIdle ==
  /\ total_frames = 0
  /\ window_size = 0
  /\ LOSS_PROBABILITY = 0
  /\ Constructed

\* No Network has been built.
DvIdle ==
  /\ topology = <<>>
  /\ max_rounds = 0
  /\ nodes = <<>>
  /\ round_no = 0
  /\ updated = FALSE
  /\ updates = <<>>
  /\ exchange = <<>>
  /\ dv_pc = "idle"

\* simulate_ospf has not been called.
OspfIdle ==
  /\ network_topology = <<>>
  /\ routers = <<>>
  /\ rounds = 0
  /\ flooding = <<>>
  /\ ospf_pc = "idle"

\* The chat server is not running.
ChatIdle ==
  /\ rooms = <<>>
  /\ clients = <<>>
  /\ handler = <<>>
  /\ username = <<>>
  /\ joined_room = <<>>
  /\ snapshot = <<>>
  /\ recipient = <<>>

\* allocate_vlsm is not called.
VlsmIdle ==
  /\ base_net = <<>>
  /\ requirements = <<>>
  /\ reqs = <<>>
  /\ allocations = <<>>
  /\ current_address = 0
  /\ results = <<>>
  /\ vlsm_pc = "idle"

Init ==
  /\ total_frames \in 1 .. MaxFrames
  /\ window_size \in 1 .. total_frames
  /\ LOSS_PROBABILITY \in LossChoices
  /\ Constructed
  /\ DvIdle /\ OspfIdle /\ ChatIdle /\ VlsmIdle

\* The constructor called with any integers: __init__ stores its arguments
\* as they are.
ConfigInit ==
  /\ total_frames \in -1 .. MaxFrames
  /\ window_size \in -1 .. (MaxFrames + 1)
  /\ LOSS_PROBABILITY \in LossChoices
  /\ Constructed
  /\ DvIdle /\ OspfIdle /\ ChatIdle /\ VlsmIdle

\* SelectiveRepeatARQ(5, 2) over a channel that drops nothing.
ScenarioAInit ==
  /\ total_frames = 5
  /\ window_size = 2
  /\ LOSS_PROBABILITY = 0
  /\ Constructed
  /\ DvIdle /\ OspfIdle /\ ChatIdle /\ VlsmIdle

-----------------------------------------------------------------------------
(* receive_ack *)

\* Faulty variant: the window slides by one entry only (`if` for `while`).
SlideOnce(ack, b) ==
  IF b < total_frames /\ ack[b] THEN b + 1 ELSE b

\* while self.base < self.total_frames and self.ack_received[self.base]:
\*     self.base += 1
RECURSIVE SlideBase(_, _)
SlideBase(ack, b) ==
  IF b < total_frames /\ ack[b] THEN SlideBase(ack, b + 1) ELSE b

\* Faulty variant: the slide runs outside the `if not ack_received` guard, one step.
AckResultUnguardedStep(ack, b, seq_num) ==
  LET a == [ack EXCEPT ![seq_num] = TRUE]
  IN  <<a, SlideOnce(a, b)>>

\* Faulty variant: a cumulative acknowledgment, as in Go-Back-N.
AckResultCumulative(ack, b, seq_num) ==
  IF ~ack[seq_num]
  THEN <<[ack EXCEPT ![seq_num] = TRUE], IF seq_num + 1 > b THEN seq_num + 1 ELSE b>>
  ELSE <<ack, b>>

\* Faulty variant: base is set from the acknowledged seq, with no guard.
AckResultSetBase(ack, b, seq_num) ==
  <<[ack EXCEPT ![seq_num] = TRUE], seq_num + 1>>

\* Faulty variant: the entry after seq_num is set.
AckResultNextSeq(ack, b, seq_num) ==
  IF ~ack[seq_num]
  THEN LET a == [ack EXCEPT ![seq_num + 1] = TRUE]
       IN  <<a, SlideBase(a, b)>>
  ELSE <<ack, b>>

\* The body of receive_ack under the lock: <<ack_received, base>> after
\* the call, from their values before it.
AckResult(ack, b, seq_num) ==
  IF ~ack[seq_num]
  THEN LET a == [ack EXCEPT ![seq_num] = TRUE]
       IN  <<a, SlideBase(a, b)>>
  ELSE <<ack, b>>

-----------------------------------------------------------------------------
(* run *)

\* Faulty variant: `<=` for `<` in the window test.
AdmitGuardOffByOne ==
  /\ next_seq_num <= base + window_size
  /\ next_seq_num < total_frames

\* Faulty variant: the test against total_frames is missing.
AdmitGuardNoTotal ==
  next_seq_num < base + window_size

\* while self.next_seq_num < self.base + self.window_size
\*       and self.next_seq_num < self.total_frames:
AdmitGuard ==
  /\ next_seq_num < base + window_size
  /\ next_seq_num < total_frames

\* while self.base < self.total_frames:   (read without the lock)
RunTest ==
  /\ pc = "test"
  /\ pc' = IF base < total_frames THEN "acquire" ELSE "done"
  /\ UNCHANGED <<total_frames, window_size, LOSS_PROBABILITY, base,
                 next_seq_num, ack_received, lock, attempts, timer>>
  /\ UNCHANGED <<dvVars, ospfVars, chatVars, vlsmVars>>

\* with self.lock:
RunAcquire ==
  /\ pc = "acquire"
  /\ lock = "free"
  /\ lock' = "run"
  /\ pc' = "admit"
  /\ UNCHANGED <<total_frames, window_size, LOSS_PROBABILITY, base,
                 next_seq_num, ack_received, attempts, timer>>
  /\ UNCHANGED <<dvVars, ospfVars, chatVars, vlsmVars>>

\* One iteration of the admission loop: the send_frame thread is started,
\* the timer thread is started, next_seq_num is incremented.
RunAdmit ==
  /\ pc = "admit"
  /\ AdmitGuard
  /\ attempts' = [attempts EXCEPT ![next_seq_num] = <<"start">>]
  /\ timer' = [timer EXCEPT ![next_seq_num] = "armed"]
  /\ next_seq_num' = next_seq_num + 1
  /\ UNCHANGED <<total_frames, window_size, LOSS_PROBABILITY, base,
                 ack_received, lock, pc>>
  /\ UNCHANGED <<dvVars, ospfVars, chatVars, vlsmVars>>

\* Faulty variant: time.sleep(0.5) inside the with block.
RunSleepHoldingLock ==
  /\ pc = "admit"
  /\ ~AdmitGuard
  /\ pc' = "sleep"
  /\ UNCHANGED <<total_frames, window_size, LOSS_PROBABILITY, base,
                 next_seq_num, ack_received, lock, attempts, timer>>
  /\ UNCHANGED <<dvVars, ospfVars, chatVars, vlsmVars>>

\* The admission loop ends, the lock is released, time.sleep(0.5) begins.
RunRelease ==
  /\ pc = "admit"
  /\ ~AdmitGuard
  /\ lock' = "free"
  /\ pc' = "sleep"
  /\ UNCHANGED <<total_frames, window_size, LOSS_PROBABILITY, base,
                 next_seq_num, ack_received, attempts, timer>>
  /\ UNCHANGED <<dvVars, ospfVars, chatVars, vlsmVars>>

\* time.sleep(0.5) returns.
RunWake ==
  /\ pc = "sleep"
  /\ pc' = "test"
  /\ UNCHANGED <<total_frames, window_size, LOSS_PROBABILITY, base,
                 next_seq_num, ack_received, lock, attempts, timer>>
  /\ UNCHANGED <<dvVars, ospfVars, chatVars, vlsmVars>>

-----------------------------------------------------------------------------
(* send_frame *)

\* if random.random() < LOSS_PROBABILITY
Lost(r) == r < LOSS_PROBABILITY

\* The first part of send_frame: the loss draw.  A lost frame ends the
\* thread; otherwise the thread sleeps for the chosen delay.
SendFrameDraw(s, i) ==
  /\ s \in Frames
  /\ i \in 1 .. Len(attempts[s])
  /\ attempts[s][i] = "start"
  /\ \E r \in RandomDraws :
       attempts' = [attempts EXCEPT ![s][i] = IF Lost(r) THEN "lost" ELSE "delay"]
  /\ UNCHANGED <<total_frames, window_size, LOSS_PROBABILITY, base,
                 next_seq_num, ack_received, lock, pc, timer>>
  /\ UNCHANGED <<dvVars, ospfVars, chatVars, vlsmVars>>

\* Faulty variant: the `return` after the [LOSS] report is missing.
AwaitsAckOrLost(a) == a \in {"delay", "lost"}

\* A send_frame thread that got past the loss test and will call
\* receive_ack when its delay is over.
AwaitsAck(a) == a = "delay"

\* The delay is over: self.receive_ack(frame.seq_num), under the lock.
SendFrameAck(s, i) ==
  /\ s \in Frames
  /\ i \in 1 .. Len(attempts[s])
  /\ AwaitsAck(attempts[s][i])
  /\ lock = "free"
  /\ attempts' = [attempts EXCEPT ![s][i] = "done"]
  /\ LET res == AckResult(ack_received, base, s)
     IN  /\ ack_received' = res[1]
         /\ base' = res[2]
  /\ UNCHANGED <<total_frames, window_size, LOSS_PROBABILITY,
                 next_seq_num, lock, pc, timer>>
  /\ UNCHANGED <<dvVars, ospfVars, chatVars, vlsmVars>>

-----------------------------------------------------------------------------
(* start_timer *)

\* Faulty variant: the test of ack_received is missing.
TimerRetransmitsAlways(s) == TRUE

\* Faulty variant: the test of ack_received is inverted.
TimerRetransmitsInverted(s) == ack_received[s]

\* if not self.ack_received[seq_num]:
TimerRetransmits(s) == ~ack_received[s]

\* Faulty variant: the retransmission starts a new timer.
TimerThreadRearms(s) ==
  /\ s \in Frames
  /\ timer[s] = "armed"
  /\ lock = "free"
  /\ timer' = [timer EXCEPT ![s] = IF ack_received[s] THEN "expired" ELSE "armed"]
  /\ attempts' = IF ~ack_received[s]
                 THEN [attempts EXCEPT ![s] = Append(@, "start")]
                 ELSE attempts
  /\ UNCHANGED <<total_frames, window_size, LOSS_PROBABILITY, base,
                 next_seq_num, ack_received, lock, pc>>
  /\ UNCHANGED <<dvVars, ospfVars, chatVars, vlsmVars>>

\* timer_thread after time.sleep(TIMEOUT): under the lock, a frame not yet
\* acknowledged gets a new send_frame thread.  No timer is started here.
TimerThread(s) ==
  /\ s \in Frames
  /\ timer[s] = "armed"
  /\ lock = "free"
  /\ timer' = [timer EXCEPT ![s] = "expired"]
  /\ attempts' = IF TimerRetransmits(s)
                 THEN [attempts EXCEPT ![s] = Append(@, "start")]
                 ELSE attempts
  /\ UNCHANGED <<total_frames, window_size, LOSS_PROBABILITY, base,
                 next_seq_num, ack_received, lock, pc>>
  /\ UNCHANGED <<dvVars, ospfVars, chatVars, vlsmVars>>

-----------------------------------------------------------------------------
Next ==
  \/ RunTest
  \/ RunAcquire
  \/ RunAdmit
  \/ RunRelease
  \/ RunWake
  \/ \E s \in Frames : \E i \in 1 .. Len(attempts[s]) : SendFrameDraw(s, i)
  \/ \E s \in Frames : \E i \in 1 .. Len(attempts[s]) : SendFrameAck(s, i)
  \/ \E s \in Frames : TimerThread(s)

Spec == Init /\ [][Next]_vars

\* The send_frame threads of seq s, taken together.
DrawAny(s) ==
  s \in Frames /\ \E i \in 1 .. Len(attempts[s]) : SendFrameDraw(s, i)

AckAny(s) ==
  s \in Frames /\ \E i \in 1 .. Len(attempts[s]) : SendFrameAck(s, i)

\* Every started thread keeps running: a time.sleep returns, and a thread
\* waiting for the lock gets it, because run() releases the lock and sleeps
\* 0.5 s on every round (strong fairness for the steps that need the lock).
Fairness ==
  /\ WF_vars(RunTest)
  /\ WF_vars(RunAcquire)
  /\ WF_vars(RunAdmit)
  /\ WF_vars(RunRelease)
  /\ WF_vars(RunWake)
  /\ \A s \in AllSeqs : WF_vars(DrawAny(s))
  /\ \A s \in AllSeqs : SF_vars(AckAny(s))
  /\ \A s \in AllSeqs : SF_vars(TimerThread(s))

FairSpec == Spec /\ Fairness

\* receive_ack called from outside the simulation, for any index of
\* ack_received: the method itself takes the lock and tests nothing else.
ReceiveAckCall(s) ==
  /\ s \in Frames
  /\ lock = "free"
  /\ LET res == AckResult(ack_received, base, s)
     IN  /\ ack_received' = res[1]
         /\ base' = res[2]
  /\ UNCHANGED <<total_frames, window_size, LOSS_PROBABILITY,
                 next_seq_num, lock, pc, attempts, timer>>
  /\ UNCHANGED <<dvVars, ospfVars, chatVars, vlsmVars>>

ApiNext ==
  \/ Next
  \/ \E s \in Frames : ReceiveAckCall(s)

\* The simulation with receive_ack also driven by an arbitrary caller.
ApiSpec == Init /\ [][ApiNext]_vars

\* The simulation started from any constructor arguments.
ConfigSpec == ConfigInit /\ [][Next]_vars

\* Scenario A: total_frames = 5, window_size = 2, no loss.
ScenarioASpec == ScenarioAInit /\ [][Next]_vars

\* A step of the thread executing run().
RunStep ==
  RunTest \/ RunAcquire \/ RunAdmit \/ RunRelease \/ RunWake

\* A step of some send_frame or timer thread.
ThreadStep ==
  \E s \in Frames : DrawAny(s) \/ AckAny(s) \/ TimerThread(s)

\* The thread of run() keeps running, and the started threads are not all
\* starved for ever of the lock that run() releases on every round.  This
\* is implied by Fairness and is all scenario A needs.
ScenarioAFairness ==
  WF_vars(RunStep) /\ SF_vars(ThreadStep)

ScenarioAFairSpec == ScenarioASpec /\ ScenarioAFairness

-----------------------------------------------------------------------------
(* Properties *)

\* The smallest seq whose entry of ack is false, or total_frames.
MinUnacked(ack) ==
  IF \A s \in Frames : ack[s]
  THEN total_frames
  ELSE CHOOSE s \in Frames : ~ack[s] /\ \A t \in Frames : t < s => ack[t]

\* The channel attempts dropped so far, as <<seq, attempt number>>.
LostAttempts ==
  UNION { { <<s, i>> : i \in { j \in 1 .. Len(attempts[s]) : attempts[s][j] = "lost" } }
          : s \in Frames }

\* A send_frame thread of seq s calls receive_ack in this step.
Delivered(s) ==
  \E i \in 1 .. Len(attempts[s]) :
    attempts[s][i] = "delay" /\ attempts'[s][i] = "done"

\* C1: in every reachable state base is the smallest seq whose entry of
\* ack_received is false, or total_frames when all are true; so base is a
\* function of the table alone.
C1_BaseIsFirstUnacked ==
  base = MinUnacked(ack_received)

\* C1 witness: an acknowledgment beyond base is recorded while base waits.
C1_Witness ==
  \E s \in Frames : s > base /\ ack_received[s] /\ base > 0

\* C2: never more than window_size frames between base and next_seq_num.
C2_WindowBound ==
  next_seq_num - base <= window_size

\* C2 witness: a full window of more than one frame, after base has moved.
C2_Witness ==
  next_seq_num - base = window_size /\ window_size > 1 /\ base > 0

\* C3: 0 <= base <= next_seq_num <= total_frames in every reachable state.
C3_Ordering ==
  0 <= base /\ base <= next_seq_num /\ next_seq_num <= total_frames

\* C3 witness: base has caught up with next_seq_num in mid-run, with a
\* retransmission made on the way.
C3_Witness ==
  /\ base = next_seq_num
  /\ 1 < base
  /\ base < total_frames
  /\ \E s \in Frames : Len(attempts[s]) > 1

\* C4: a retransmission is started only in a state where the seq is not
\* acknowledged, and a timer that expires after the acknowledgment changes
\* neither the window state nor the set of send threads.
C4_ExpiryAckExclusive ==
  [][\A s \in Frames :
       /\ (Len(attempts[s]) > 0 /\ Len(attempts'[s]) > Len(attempts[s]))
            => ~ack_received[s]
       /\ (timer[s] = "armed" /\ timer'[s] = "expired" /\ ack_received[s])
            => UNCHANGED <<attempts, base, next_seq_num, ack_received>>]_vars

\* C4 witness: the timer of an acknowledged seq has expired without a
\* retransmission.
C4_Witness ==
  \E s \in Frames :
    timer[s] = "expired" /\ ack_received[s] /\ Len(attempts[s]) = 1

\* C5: whenever the timer of an admitted, unacknowledged seq expires, the
\* seq is dispatched again and its timer is armed again.
C5_ExpiryRearms ==
  [][\A s \in Frames :
       (/\ timer[s] = "armed"
        /\ ~ack_received[s]
        /\ (timer'[s] # "armed" \/ Len(attempts'[s]) > Len(attempts[s])))
       => (/\ Len(attempts'[s]) = Len(attempts[s]) + 1
           /\ timer'[s] = "armed")]_vars

\* C6: every run eventually stops (run() returns).
C6_EventuallyStops ==
  <>(pc = "done")

\* C7: with LOSS_PROBABILITY = 0 every fair run ends with base =
\* total_frames, every seq admitted once and sent at most twice.
C7_ReliableCompletes ==
  (LOSS_PROBABILITY = 0) =>
    <>(/\ pc = "done"
       /\ base = total_frames
       /\ next_seq_num = total_frames
       /\ \A s \in Frames : Len(attempts[s]) \in {1, 2})

\* C7 witness: a finished run over a reliable channel in which a timer
\* expired before the acknowledgment and a retransmission was made.
C7_Witness ==
  /\ LOSS_PROBABILITY = 0
  /\ pc = "done"
  /\ \E s \in Frames : Len(attempts[s]) = 2

\* C8: for every seq k, as long as the only dropped attempt is the first
\* attempt of k, an acknowledged k has had exactly one retransmission, and
\* it was delivered; and every fair run either ends with base =
\* total_frames or drops some other attempt.
C8_DropFirstOnce ==
  /\ [](\A k \in Frames :
          (LostAttempts = {<<k, 1>>} /\ ack_received[k])
            => attempts[k] = <<"lost", "done">>)
  /\ <>(\/ pc = "done" /\ base = total_frames
        \/ ~(\E k \in Frames : LostAttempts \subseteq {<<k, 1>>}))

\* C8 witness: the first attempt of seq 2 was the only one dropped, and
\* the run has ended.
C8_Witness ==
  /\ LostAttempts = {<<2, 1>>}
  /\ attempts[2] = <<"lost", "done">>
  /\ pc = "done"
  /\ base = total_frames

\* C9: receive_ack for a seq whose entry is already true, below base or
\* not, leaves ack_received and base as they are (next_seq_num is not
\* written by receive_ack).
C9_AckIdempotent ==
  \A s \in Frames :
    ack_received[s] =>
      AckResult(ack_received, base, s) = <<ack_received, base>>

\* C9 witness: both the first attempt and the retransmission of a seq
\* below base have delivered their acknowledgment.
C9_Witness ==
  \E s \in Frames : attempts[s] = <<"done", "done">> /\ s < base

\* C10: an acknowledgment for a seq beyond base, while base is not
\* acknowledged, is recorded in that step and leaves base where it is; the
\* acknowledgment of base moves base, in that step, past every consecutive
\* acknowledged entry.
C10_SelectiveSlide ==
  [][\A s \in Frames :
       (Delivered(s) /\ ~ack_received[s]) =>
         /\ ack_received'[s]
         /\ (s > base /\ ~ack_received[base]) => base' = base
         /\ (s = base) =>
              /\ base' > base
              /\ \A t \in base .. (base' - 1) : ack_received'[t]
              /\ base' < total_frames => ~ack_received'[base']]_vars

\* C10 witness: the acknowledgment of seq 1 is recorded while seq 0 is
\* still missing and base is 0.
C10_Witness ==
  /\ base = 0
  /\ total_frames > 1
  /\ ack_received[1]
  /\ ~ack_received[0]

\* C11: a step that increments next_seq_num, starts the first send_frame
\* thread of a seq or arms a timer is taken only in a state where
\* next_seq_num < base + window_size and next_seq_num < total_frames, and it
\* admits exactly the seq next_seq_num; so nothing is admitted when the
\* window is full or the stream is exhausted.
C11_AdmissionCap ==
  [][(\/ next_seq_num' # next_seq_num
      \/ \E s \in Frames : timer[s] = "none" /\ timer'[s] # "none"
      \/ \E s \in Frames : Len(attempts[s]) = 0 /\ Len(attempts'[s]) > 0)
     => (/\ next_seq_num < base + window_size
         /\ next_seq_num < total_frames
         /\ next_seq_num' = next_seq_num + 1
         /\ attempts'[next_seq_num] = <<"start">>
         /\ timer'[next_seq_num] = "armed")]_vars

\* C11 witness: run() found the window full with frames still to admit,
\* admitted nothing and went to sleep, after an earlier slide.
C11_Witness ==
  /\ pc = "sleep"
  /\ next_seq_num - base = window_size
  /\ next_seq_num < total_frames
  /\ base > 0

\* C12: in every step base does not decrease, next_seq_num does not
\* decrease and no true entry of ack_received becomes false.
C12_Monotone ==
  [][/\ base' >= base
     /\ next_seq_num' >= next_seq_num
     /\ \A s \in Frames : ack_received[s] => ack_received'[s]]_vars

\* C12 witness: a late duplicate acknowledgment of a seq well below base
\* has been processed after the whole stream was acknowledged.
C12_Witness ==
  /\ base = total_frames
  /\ next_seq_num = total_frames
  /\ \E s \in Frames : s + 1 < base /\ attempts[s] = <<"done", "done">>

\* C16: run() returns only with base = total_frames and every entry of
\* ack_received true; it returns once (the thread stays ended), and from
\* then on no seq is admitted, no send_frame thread is started and no
\* window state changes, whatever timers and deliveries are still pending.
C16_CompletionFinal ==
  /\ [](pc = "done" =>
          base = total_frames /\ \A s \in Frames : ack_received[s])
  /\ [][pc = "done" =>
          /\ pc' = "done"
          /\ UNCHANGED <<base, next_seq_num, ack_received>>
          /\ \A s \in Frames : Len(attempts'[s]) = Len(attempts[s])]_vars

\* C16 witness: run() has returned while a timer is still armed and a
\* delayed delivery is still pending.
C16_Witness ==
  /\ pc = "done"
  /\ \E s \in Frames : timer[s] = "armed"
  /\ \E s \in Frames : \E i \in 1 .. Len(attempts[s]) : attempts[s][i] = "delay"

\* C13: in scenario A frames 2 and 3 are admitted only after both 0 and 1
\* have been acknowledged (frames 0 and 1 first, frame 4 later), and the run
\* ends with base = 5.
C13_ScenarioABatches ==
  /\ [](next_seq_num > 2 => ack_received[0] /\ ack_received[1])
  /\ [][next_seq_num' \in {next_seq_num, next_seq_num + 1}]_vars
  /\ <>(pc = "done" /\ base = 5)

\* C13, as the code behaves: in scenario A the frames are admitted in the
\* order 0 .. 4, frame 2 only after 0 has been acknowledged, frame 3 only
\* after 0 and 1, frame 4 only after 0, 1 and 2, and the run ends with
\* base = 5.
C13_ScenarioASliding ==
  /\ [](next_seq_num > 2 => ack_received[0])
  /\ [](next_seq_num > 3 => ack_received[0] /\ ack_received[1])
  /\ [](next_seq_num > 4 =>
          ack_received[0] /\ ack_received[1] /\ ack_received[2])
  /\ [][next_seq_num' \in {next_seq_num, next_seq_num + 1}]_vars
  /\ <>(pc = "done" /\ base = 5)

\* C13 witness: in scenario A frame 2 is in flight while frame 1 is not
\* yet acknowledged.
C13_Witness ==
  /\ total_frames = 5
  /\ window_size = 2
  /\ LOSS_PROBABILITY = 0
  /\ next_seq_num = 3
  /\ ack_received[0]
  /\ ~ack_received[1]

\* C14: an acknowledgment for a seq not yet admitted (seq >= next_seq_num)
\* is never recorded in ack_received and never moves base.
C14_UnadmittedAckRejected ==
  [][\A s \in Frames :
       s >= next_seq_num =>
         /\ ack_received'[s] = ack_received[s]
         /\ base' <= s]_vars

\* The constructor arguments the simulation is meant for.
ConfigValid ==
  /\ total_frames >= 1
  /\ window_size >= 1
  /\ window_size <= total_frames
  /\ LOSS_PROBABILITY \in 0 .. 100

\* C15: with an invalid configuration no frame is ever admitted or sent
\* and no timer is armed.
C15_InvalidConfigRejected ==
  ConfigValid \/
    /\ next_seq_num = 0
    /\ \A s \in Frames : attempts[s] = <<>> /\ timer[s] = "none"

-----------------------------------------------------------------------------
(* Distance vector simulator (src/04_distance_vector_routing) *)

\* Number of nodes of the topologies explored.
NumNodes == 3

INFINITY == 9999

\* Node names, in the order of the keys of the topology dict; the neighbor
\* dicts list their keys in the same order.
Names == <<"A", "B", "C", "D", "E">>

NodeSet == { Names[i] : i \in 1 .. NumNodes }

\* Link costs: two small ones and one whose double exceeds 50.
CostChoices == {1, 2, 30}

\* max_rounds: a value below the number of nodes, and the default.
MaxRoundsChoices == {2, 20}

\* The unordered pairs of nodes.
Links == { l \in SUBSET NodeSet : Cardinality(l) = 2 }

\* The topology dict of an undirected weighted graph: w[l] = 0 for no link.
TopologyOf(w) ==
  [x \in NodeSet |->
     [y \in { z \in NodeSet \ {x} : w[{x, z}] # 0 } |-> w[{x, y}]]]

\* The elements of S in the order of the dict keys.
Ordered(S) ==
  SelectSeq(SubSeq(Names, 1, NumNodes), LAMBDA n : n \in S)

\* Node.__init__
NodeInit(name, neighbors) ==
  [distance_vector |->
     [dest \in DOMAIN neighbors \cup {name} |->
        IF dest = name THEN 0 ELSE INFINITY],
   routing_table |-> [dest \in DOMAIN neighbors \cup {name} |-> dest]]

\* Network.__init__ and the call of run_until_convergence.
DvInit ==
  /\ \E w \in [Links -> CostChoices \cup {0}] : topology = TopologyOf(w)
  /\ max_rounds \in MaxRoundsChoices
  /\ nodes = [name \in NodeSet |-> NodeInit(name, topology[name])]
  /\ round_no = 0
  /\ updated = FALSE
  /\ updates = <<>>
  /\ exchange = <<>>
  /\ dv_pc = "for"
  /\ ArqIdle /\ OspfIdle /\ ChatIdle /\ VlsmIdle

\* Faulty variant: the link cost is left out.
NewCostNoLink(link_cost, neighbor_cost) == neighbor_cost

\* new_cost = link_cost + neighbor_cost
NewCost(link_cost, neighbor_cost) == link_cost + neighbor_cost

\* Faulty variant: costs above 50 are stored as they are.
ReceiveEntryNoReset(node, neighbor, neighbor_vector, link_cost, dest) ==
  LET known == dest \in DOMAIN node.distance_vector
      cost == IF known THEN node.distance_vector[dest] ELSE INFINITY
      hop == IF known THEN node.routing_table[dest] ELSE "None"
      new_cost == NewCost(link_cost, neighbor_vector[dest])
      better == new_cost < cost
  IN  IF better THEN <<new_cost, neighbor, TRUE>> ELSE <<cost, hop, FALSE>>

\* One iteration of the loop of receive_update, for dest: the entry
\* <<cost, next hop, changed>> that dest has afterwards.
ReceiveEntry(node, neighbor, neighbor_vector, link_cost, dest) ==
  LET known == dest \in DOMAIN node.distance_vector
      cost == IF known THEN node.distance_vector[dest] ELSE INFINITY
      hop == IF known THEN node.routing_table[dest] ELSE "None"
      new_cost == NewCost(link_cost, neighbor_vector[dest])
      better == new_cost < cost
      cost1 == IF better THEN new_cost ELSE cost
      hop1 == IF better THEN neighbor ELSE hop
  IN  IF cost1 > 50
      THEN <<INFINITY, "None", better>>
      ELSE <<cost1, hop1, better>>

\* Node.receive_update: the node afterwards and the value returned.  The
\* iterations for different dest touch different entries.
ReceiveUpdate(node, neighbor, neighbor_vector, link_cost) ==
  LET dests == DOMAIN node.distance_vector \cup DOMAIN neighbor_vector
      entry(dest) ==
        ReceiveEntry(node, neighbor, neighbor_vector, link_cost, dest)
  IN  [node |->
         [distance_vector |->
            [dest \in dests |->
               IF dest \in DOMAIN neighbor_vector
               THEN entry(dest)[1] ELSE node.distance_vector[dest]],
          routing_table |->
            [dest \in dests |->
               IF dest \in DOMAIN neighbor_vector
               THEN entry(dest)[2] ELSE node.routing_table[dest]]],
       updated |-> \E dest \in DOMAIN neighbor_vector : entry(dest)[3]]

\* The pairs visited by the two nested exchange loops, in order.
RECURSIVE ExchangePairs(_)
ExchangePairs(names) ==
  IF names = <<>>
  THEN <<>>
  ELSE LET name == Head(names)
           nbrs == Ordered({ n \in DOMAIN topology[name] : n \in DOMAIN nodes })
       IN  [i \in 1 .. Len(nbrs) |-> <<name, nbrs[i]>>]
             \o ExchangePairs(Tail(names))

\* A round begins: updated = False and every node's send_update().
DvStartRound ==
  /\ dv_pc = "for"
  /\ round_no < max_rounds
  /\ round_no' = round_no + 1
  /\ updated' = FALSE
  /\ updates' = [name \in NodeSet |-> nodes[name].distance_vector]
  /\ exchange' = ExchangePairs(Ordered(NodeSet))
  /\ dv_pc' = "exchange"
  /\ UNCHANGED <<topology, max_rounds, nodes>>
  /\ UNCHANGED <<arqVars, ospfVars, chatVars, vlsmVars>>

\* changed = node.receive_update(neighbor, updates[neighbor], cost)
\* updated = updated or changed
DvReceiveUpdate ==
  /\ dv_pc = "exchange"
  /\ exchange # <<>>
  /\ LET name == Head(exchange)[1]
         neighbor == Head(exchange)[2]
         res == ReceiveUpdate(nodes[name], neighbor, updates[neighbor],
                              topology[name][neighbor])
     IN  /\ nodes' = [nodes EXCEPT ![name] = res.node]
         /\ updated' = (updated \/ res.updated)
  /\ exchange' = Tail(exchange)
  /\ UNCHANGED <<topology, max_rounds, round_no, updates, dv_pc>>
  /\ UNCHANGED <<arqVars, ospfVars, chatVars, vlsmVars>>

\* The end of a round: convergence is reported, or the next round follows.
DvEndRound ==
  /\ dv_pc = "exchange"
  /\ exchange = <<>>
  /\ dv_pc' = IF ~updated THEN "converged" ELSE "for"
  /\ UNCHANGED <<topology, max_rounds, nodes, round_no, updated, updates,
                 exchange>>
  /\ UNCHANGED <<arqVars, ospfVars, chatVars, vlsmVars>>

\* The else branch of the for loop: max_rounds rounds without convergence.
DvExhausted ==
  /\ dv_pc = "for"
  /\ round_no >= max_rounds
  /\ dv_pc' = "exhausted"
  /\ UNCHANGED <<topology, max_rounds, nodes, round_no, updated, updates,
                 exchange>>
  /\ UNCHANGED <<arqVars, ospfVars, chatVars, vlsmVars>>

DvNext ==
  \/ DvStartRound
  \/ DvReceiveUpdate
  \/ DvEndRound
  \/ DvExhausted

DvSpec == DvInit /\ [][DvNext]_vars

\* The single thread of the simulation keeps running.
DvFairSpec == DvSpec /\ WF_vars(DvNext)

\* The nodes that can be reached from the nodes of S over the links.
RECURSIVE ReachFrom(_)
ReachFrom(S) ==
  LET T == S \cup UNION { DOMAIN topology[x] : x \in S }
  IN  IF T = S THEN S ELSE ReachFrom(T)

Connected ==
  \A x \in DOMAIN topology : ReachFrom({x}) = DOMAIN topology

SymmetricPositive ==
  \A x \in DOMAIN topology : \A y \in DOMAIN topology[x] :
    /\ x \in DOMAIN topology[y]
    /\ topology[y][x] = topology[x][y]
    /\ topology[x][y] > 0

Min(S) == CHOOSE m \in S : \A n \in S : m <= n

\* The cost of the cheapest path from x to d of at most hops links, or
\* INFINITY when there is none.
RECURSIVE PathCost(_, _, _)
PathCost(x, d, hops) ==
  IF x = d THEN 0
  ELSE IF hops = 0 THEN INFINITY
  ELSE Min({INFINITY} \cup
           { topology[x][n] + PathCost(n, d, hops - 1) : n \in DOMAIN topology[x] })

ShortestCost(x, d) == PathCost(x, d, Cardinality(DOMAIN topology) - 1)

\* C17: for a connected topology with symmetric positive link costs and
\* fewer nodes than max_rounds, run_until_convergence eventually reports
\* convergence (and so does not exhaust max_rounds).
C17_DvConverges ==
  (Connected /\ SymmetricPositive /\ Cardinality(DOMAIN topology) < max_rounds)
    => <>(dv_pc = "converged")

\* C18: when convergence is reported, every node holds for every
\* destination it can reach the true shortest-path cost, and for every
\* destination other than itself a next hop that is a direct neighbor on a
\* shortest path; it holds no finite cost for a destination it cannot reach.
C18_ConvergedIsShortest ==
  dv_pc = "converged" =>
    \A x \in DOMAIN nodes : \A d \in DOMAIN nodes :
      LET dv == nodes[x].distance_vector
          rt == nodes[x].routing_table
      IN  IF ShortestCost(x, d) < INFINITY
          THEN /\ d \in DOMAIN dv
               /\ dv[d] = ShortestCost(x, d)
               /\ d # x =>
                    /\ rt[d] \in DOMAIN topology[x]
                    /\ topology[x][rt[d]] + ShortestCost(rt[d], d) = dv[d]
          ELSE d \in DOMAIN dv => dv[d] = INFINITY

\* C18 witness: convergence is reported and some node reaches a direct
\* neighbor more cheaply through another node than over the direct link.
C18_Witness ==
  /\ dv_pc = "converged"
  /\ \E x \in DOMAIN nodes : \E d \in DOMAIN topology[x] :
       /\ nodes[x].distance_vector[d] < topology[x][d]
       /\ nodes[x].routing_table[d] # d

-----------------------------------------------------------------------------
(* OSPF link state simulator (src/05_ospf_link_state) *)

\* The keys of network_topology.
RouterSet == { Names[i] : i \in 1 .. NumNodes }

\* The neighbor dicts a router may be given: any set of other routers, at
\* one cost (flooding copies the dicts and never looks into them).
NeighborMaps(name) ==
  UNION { [S -> {1}] : S \in SUBSET (RouterSet \ {name}) }

\* Router.__init__
RouterInit(name, neighbors) ==
  [topology_db |-> (name :> neighbors)]

\* simulate_ospf up to the flooding loop.
OspfInit ==
  /\ network_topology \in
       { f \in [RouterSet -> UNION { NeighborMaps(n) : n \in RouterSet }] :
           \A n \in RouterSet : f[n] \in NeighborMaps(n) }
  /\ routers = [name \in RouterSet |-> RouterInit(name, network_topology[name])]
  /\ rounds = 0
  /\ flooding = <<>>
  /\ ospf_pc = "while"
  /\ ArqIdle /\ DvIdle /\ ChatIdle /\ VlsmIdle

\* Router.receive_lsa
ReceiveLsa(router, router_name, lsa) ==
  IF \/ router_name \notin DOMAIN router.topology_db
     \/ router.topology_db[router_name] # lsa
  THEN [router EXCEPT !.topology_db =
          [n \in DOMAIN @ \cup {router_name} |->
             IF n = router_name THEN lsa ELSE @[n]]]
  ELSE router

\* Faulty variant: an LSA is sent to the direct neighbors only.
FloodTargetsNeighbors(name) ==
  DOMAIN network_topology[name] \cap DOMAIN routers

\* flood_lsa: every router of the network but the sender.
FloodTargets(name) ==
  { r \in DOMAIN routers : r # name }

\* rounds += 1, and the loop over routers.values() begins.
OspfStartRound ==
  /\ ospf_pc = "while"
  /\ rounds' = rounds + 1
  /\ flooding' = Ordered(RouterSet)
  /\ ospf_pc' = "flood"
  /\ UNCHANGED <<network_topology, routers>>
  /\ UNCHANGED <<arqVars, dvVars, chatVars, vlsmVars>>

\* router.flood_lsa(routers) for the next router.
OspfFloodLsa ==
  /\ ospf_pc = "flood"
  /\ flooding # <<>>
  /\ LET name == Head(flooding)
     IN  routers' = [r \in DOMAIN routers |->
                      IF r \in FloodTargets(name)
                      THEN ReceiveLsa(routers[r], name, network_topology[name])
                      ELSE routers[r]]
  /\ flooding' = Tail(flooding)
  /\ UNCHANGED <<network_topology, rounds, ospf_pc>>
  /\ UNCHANGED <<arqVars, dvVars, chatVars, vlsmVars>>

\* all(all_dbs[0] == db for db in all_dbs)
AllDbsEqual ==
  \A r1, r2 \in DOMAIN routers :
    routers[r1].topology_db = routers[r2].topology_db

\* Step 2: convergence ends the loop; otherwise time.sleep(0.5) and the
\* next round.
OspfCheck ==
  /\ ospf_pc = "flood"
  /\ flooding = <<>>
  /\ ospf_pc' = IF AllDbsEqual THEN "converged" ELSE "while"
  /\ UNCHANGED <<network_topology, routers, rounds, flooding>>
  /\ UNCHANGED <<arqVars, dvVars, chatVars, vlsmVars>>

OspfNext ==
  \/ OspfStartRound
  \/ OspfFloodLsa
  \/ OspfCheck

OspfSpec == OspfInit /\ [][OspfNext]_vars

\* The single thread of the simulation keeps running.
OspfFairSpec == OspfSpec /\ WF_vars(OspfNext)

\* C19: once every router has flooded its LSA, every topology_db is the
\* whole network_topology (so all are identical); there is never a second
\* round; and the flooding loop ends, with convergence declared in round 1.
C19_OspfOneRound ==
  /\ []((ospf_pc = "flood" /\ flooding = <<>>) =>
          \A r \in DOMAIN routers : routers[r].topology_db = network_topology)
  /\ [](rounds <= 1)
  /\ <>(ospf_pc = "converged" /\ rounds = 1)

\* C19 witness: convergence is declared and two routers that are not
\* neighbors of each other hold each other's neighbor dict.
C19_Witness ==
  /\ ospf_pc = "converged"
  /\ \E x \in DOMAIN routers : \E y \in DOMAIN routers :
       /\ x # y
       /\ y \notin DOMAIN network_topology[x]
       /\ x \notin DOMAIN network_topology[y]
       /\ routers[x].topology_db[y] = network_topology[y]
       /\ network_topology[y] # <<>>

-----------------------------------------------------------------------------
(* Chat server (src/01_async_tcp_chat/server.py) *)

\* The StreamWriter objects of the connections accepted by the server.
Writers == {"w1", "w2", "w3"}

\* The room names clients ask for.
RoomNames == {"lobby", "dev"}

\* The names clients answer the username prompt with.
Usernames == {"ann"}

\* The awaits of handle_client at which a coroutine inside the try block
\* can be suspended: readline (line 32), the drain that ends a command
\* (line 72), w.drain() inside broadcast (line 92), the drain after
\* Goodbye (line 66).
InTry == {"readline", "drain", "broadcast", "goodbye"}

\* The server has started and no connection has been accepted.
ChatInit ==
  /\ rooms = <<>>
  /\ clients = <<>>
  /\ handler = [w \in Writers |-> "none"]
  /\ username = [w \in Writers |-> "None"]
  /\ joined_room = [w \in Writers |-> "None"]
  /\ snapshot = [w \in Writers |-> {}]
  /\ recipient = [w \in Writers |-> "None"]
  /\ ArqIdle /\ DvIdle /\ OspfIdle /\ VlsmIdle

\* Faulty variant: the entry is not removed.
DiscardNothing(rms, room, entry) ==
  rms

\* rooms[room].discard(entry), for a room that is in rooms
Discard(rms, room, entry) ==
  [rms EXCEPT ![room] = @ \ {entry}]

\* rooms.setdefault(room, set()).add(entry)
SetDefaultAdd(rms, room, entry) ==
  [r \in DOMAIN rms \cup {room} |->
     IF r = room
     THEN (IF room \in DOMAIN rms THEN rms[room] ELSE {}) \cup {entry}
     ELSE rms[r]]

\* clients.pop(writer, None)
Pop(cl, w) ==
  [x \in DOMAIN cl \ {w} |-> cl[x]]

\* A connection is accepted: handle_client starts, writes the prompt and
\* waits for the drain and the username line (lines 19-22).
Connect(w) ==
  /\ handler[w] = "none"
  /\ handler' = [handler EXCEPT ![w] = "username"]
  /\ UNCHANGED <<rooms, clients, username, joined_room, snapshot, recipient>>
  /\ UNCHANGED <<arqVars, dvVars, ospfVars, vlsmVars>>

\* The username line arrives: the client is registered, the welcome is
\* written and the coroutine awaits writer.drain() (lines 22-25).
ReadUsername(w) ==
  /\ handler[w] = "username"
  /\ \E u \in Usernames :
       /\ username' = [username EXCEPT ![w] = u]
       /\ clients' = [x \in DOMAIN clients \cup {w} |->
                        IF x = w THEN u ELSE clients[x]]
  /\ handler' = [handler EXCEPT ![w] = "welcome"]
  /\ UNCHANGED <<rooms, joined_room, snapshot, recipient>>
  /\ UNCHANGED <<arqVars, dvVars, ospfVars, vlsmVars>>

\* An await of lines 21-25 raises (ConnectionResetError from drain, or
\* CancelledError): these lines are outside the try block, so the
\* coroutine ends there and then.
RaiseBeforeTry(w) ==
  /\ handler[w] \in {"username", "welcome"}
  /\ handler' = [handler EXCEPT ![w] = "finished"]
  /\ UNCHANGED <<rooms, clients, username, joined_room, snapshot, recipient>>
  /\ UNCHANGED <<arqVars, dvVars, ospfVars, vlsmVars>>

\* The welcome is drained: joined_room = None, the loop begins (lines
\* 25-32).
WelcomeDrained(w) ==
  /\ handler[w] = "welcome"
  /\ handler' = [handler EXCEPT ![w] = "readline"]
  /\ UNCHANGED <<rooms, clients, username, joined_room, snapshot, recipient>>
  /\ UNCHANGED <<arqVars, dvVars, ospfVars, vlsmVars>>

\* /join <room>: the entry leaves the previous room, if any, and enters
\* room; the reply is written and drained (lines 37-43, 72).
Join(w, room) ==
  /\ handler[w] = "readline"
  /\ LET entry == <<w, username[w]>>
         left == IF joined_room[w] # "None"
                 THEN Discard(rooms, joined_room[w], entry)
                 ELSE rooms
     IN  rooms' = SetDefaultAdd(left, room, entry)
  /\ joined_room' = [joined_room EXCEPT ![w] = room]
  /\ handler' = [handler EXCEPT ![w] = "drain"]
  /\ UNCHANGED <<clients, username, snapshot, recipient>>
  /\ UNCHANGED <<arqVars, dvVars, ospfVars, vlsmVars>>

\* /leave (lines 45-51, 72)
Leave(w) ==
  /\ handler[w] = "readline"
  /\ IF /\ joined_room[w] # "None"
        /\ w \in { e[1] : e \in rooms[joined_room[w]] }
     THEN /\ rooms' = Discard(rooms, joined_room[w], <<w, username[w]>>)
          /\ joined_room' = [joined_room EXCEPT ![w] = "None"]
     ELSE UNCHANGED <<rooms, joined_room>>
  /\ handler' = [handler EXCEPT ![w] = "drain"]
  /\ UNCHANGED <<clients, username, snapshot, recipient>>
  /\ UNCHANGED <<arqVars, dvVars, ospfVars, vlsmVars>>

\* The loop of broadcast from the entries still to visit: the entry of
\* the sender is skipped; the message is written to the writer of some
\* other entry (a set is iterated in no particular order) and the coroutine
\* awaits its drain, or the loop is over and the drain of line 72 follows.
BroadcastLoop(w, entries) ==
  LET others == { e \in entries : e[1] # w }
  IN  IF others = {}
      THEN /\ snapshot' = [snapshot EXCEPT ![w] = {}]
           /\ recipient' = [recipient EXCEPT ![w] = "None"]
           /\ handler' = [handler EXCEPT ![w] = "drain"]
      ELSE \E e \in others :
             /\ snapshot' = [snapshot EXCEPT ![w] = others \ {e}]
             /\ recipient' = [recipient EXCEPT ![w] = e[1]]
             /\ handler' = [handler EXCEPT ![w] = "broadcast"]

\* /msg <text>: without a room the loop continues; otherwise broadcast
\* copies the room and starts writing (lines 53-58, 85-92).
Msg(w) ==
  /\ handler[w] = "readline"
  /\ IF joined_room[w] = "None"
     THEN UNCHANGED <<handler, snapshot, recipient>>
     ELSE BroadcastLoop(w, rooms[joined_room[w]])
  /\ UNCHANGED <<rooms, clients, username, joined_room>>
  /\ UNCHANGED <<arqVars, dvVars, ospfVars, vlsmVars>>

\* await w.drain() inside broadcast returns, or raises ConnectionError and
\* the entry of the recipient is discarded under the name clients has for
\* it; then the loop goes on (lines 90-94).
BroadcastResume(w) ==
  /\ handler[w] = "broadcast"
  /\ \E ok \in BOOLEAN :
       rooms' = IF ok
                THEN rooms
                ELSE Discard(rooms, joined_room[w],
                             <<recipient[w],
                               IF recipient[w] \in DOMAIN clients
                               THEN clients[recipient[w]] ELSE "unknown">>)
  /\ BroadcastLoop(w, snapshot[w])
  /\ UNCHANGED <<clients, username, joined_room>>
  /\ UNCHANGED <<arqVars, dvVars, ospfVars, vlsmVars>>

\* /rooms or an unknown command: a reply is written and drained.
OtherCommand(w) ==
  /\ handler[w] = "readline"
  /\ handler' = [handler EXCEPT ![w] = "drain"]
  /\ UNCHANGED <<rooms, clients, username, joined_room, snapshot, recipient>>
  /\ UNCHANGED <<arqVars, dvVars, ospfVars, vlsmVars>>

\* await writer.drain() of line 72 returns.
Drained(w) ==
  /\ handler[w] = "drain"
  /\ handler' = [handler EXCEPT ![w] = "readline"]
  /\ UNCHANGED <<rooms, clients, username, joined_room, snapshot, recipient>>
  /\ UNCHANGED <<arqVars, dvVars, ospfVars, vlsmVars>>

\* /quit: Goodbye is written and drained (lines 64-66).
Quit(w) ==
  /\ handler[w] = "readline"
  /\ handler' = [handler EXCEPT ![w] = "goodbye"]
  /\ UNCHANGED <<rooms, clients, username, joined_room, snapshot, recipient>>
  /\ UNCHANGED <<arqVars, dvVars, ospfVars, vlsmVars>>

\* The coroutine leaves the try block from the await it is suspended at:
\* readline returns b"" (line 34), the drain after Goodbye returns (line
\* 67), or the await raises CancelledError or any other exception.  The
\* finally block runs up to its await (lines 76-82).
ExitTry(w) ==
  /\ handler[w] \in InTry
  /\ rooms' = IF joined_room[w] # "None" /\ joined_room[w] \in DOMAIN rooms
              THEN Discard(rooms, joined_room[w], <<w, username[w]>>)
              ELSE rooms
  /\ clients' = Pop(clients, w)
  /\ handler' = [handler EXCEPT ![w] = "wait_closed"]
  /\ snapshot' = [snapshot EXCEPT ![w] = {}]
  /\ recipient' = [recipient EXCEPT ![w] = "None"]
  /\ UNCHANGED <<username, joined_room>>
  /\ UNCHANGED <<arqVars, dvVars, ospfVars, vlsmVars>>

\* await writer.wait_closed() returns or raises: the coroutine is over.
Closed(w) ==
  /\ handler[w] = "wait_closed"
  /\ handler' = [handler EXCEPT ![w] = "finished"]
  /\ UNCHANGED <<rooms, clients, username, joined_room, snapshot, recipient>>
  /\ UNCHANGED <<arqVars, dvVars, ospfVars, vlsmVars>>

ChatNext ==
  \/ \E w \in Writers : Connect(w)
  \/ \E w \in Writers : ReadUsername(w)
  \/ \E w \in Writers : RaiseBeforeTry(w)
  \/ \E w \in Writers : WelcomeDrained(w)
  \/ \E w \in Writers : \E room \in RoomNames : Join(w, room)
  \/ \E w \in Writers : Leave(w)
  \/ \E w \in Writers : Msg(w)
  \/ \E w \in Writers : BroadcastResume(w)
  \/ \E w \in Writers : OtherCommand(w)
  \/ \E w \in Writers : Drained(w)
  \/ \E w \in Writers : Quit(w)
  \/ \E w \in Writers : ExitTry(w)
  \/ \E w \in Writers : Closed(w)

ChatSpec == ChatInit /\ [][ChatNext]_vars

\* C20: a client whose handler has finished has no entry in any room and
\* its writer is not a key of clients.
C20_FinishedIsGone ==
  \A w \in Writers :
    handler[w] = "finished" =>
      /\ w \notin DOMAIN clients
      /\ \A room \in DOMAIN rooms : \A e \in rooms[room] : e[1] # w

-----------------------------------------------------------------------------
(* Selective Repeat ARQ: further properties *)

\* Some send_frame thread of seq s has not ended.
AttemptPending(s) ==
  \E i \in 1 .. Len(attempts[s]) : attempts[s][i] \in {"start", "delay"}

\* C22: every seq whose entry of ack_received is true has been admitted
\* (seq < next_seq_num).
C22_AckedIsAdmitted ==
  \A s \in Frames : ack_received[s] => s < next_seq_num

\* C22 witness: the seq admitted last is acknowledged while run() still
\* holds frames back.
C22_Witness ==
  /\ next_seq_num > 0
  /\ next_seq_num < total_frames
  /\ ack_received[next_seq_num - 1]
  /\ base = next_seq_num

\* C23: the seqs admitted so far are exactly 0 .. next_seq_num - 1, never
\* more than total_frames; next_seq_num changes only by one, for a seq not
\* admitted before, in a step of the thread of run() holding the lock that
\* also starts the first send_frame thread and the timer of that seq and
\* changes neither ack_received nor base; and a finished run has admitted
\* every seq.
C23_AdmissionInOrder ==
  /\ [](/\ next_seq_num <= total_frames
        /\ \A s \in Frames :
             /\ (s < next_seq_num) <=> (Len(attempts[s]) > 0)
             /\ (s < next_seq_num) <=> (timer[s] # "none")
        /\ pc = "done" => next_seq_num = total_frames)
  /\ [][next_seq_num' # next_seq_num =>
          /\ next_seq_num' = next_seq_num + 1
          /\ lock = "run" /\ lock' = "run"
          /\ UNCHANGED <<ack_received, base>>
          /\ next_seq_num \in Frames =>
               /\ attempts[next_seq_num] = <<>>
               /\ timer[next_seq_num] = "none"
               /\ attempts'[next_seq_num] = <<"start">>
               /\ timer'[next_seq_num] = "armed"
               /\ \A s \in Frames \ {next_seq_num} :
                    attempts'[s] = attempts[s] /\ timer'[s] = timer[s]]_vars

\* C23 witness: the last seq has been admitted in a round of run() that
\* followed acknowledgments and a timer expiry.
C23_Witness ==
  /\ next_seq_num = total_frames
  /\ total_frames > window_size
  /\ pc = "admit"
  /\ \E s \in Frames : timer[s] = "expired" /\ Len(attempts[s]) = 2

\* C24: a delivery for a seq whose entry is false sets that entry and no
\* other; a delivery for a seq whose entry is true changes neither
\* ack_received nor base nor next_seq_num.  So of two deliveries for one
\* seq only the first has an effect.
C24_OneAckEvent ==
  [][\A s \in Frames :
       Delivered(s) =>
         IF ack_received[s]
         THEN UNCHANGED <<ack_received, base, next_seq_num>>
         ELSE /\ ack_received' = [ack_received EXCEPT ![s] = TRUE]
              /\ base' >= base
              /\ UNCHANGED next_seq_num]_vars

\* C24 witness: the original attempt and the retransmission of a seq
\* beyond base have both delivered their acknowledgment.
C24_Witness ==
  \E s \in Frames : attempts[s] = <<"done", "done">> /\ s > base

\* C25: a dropped attempt and a timer expiry leave base, next_seq_num and
\* ack_received unchanged; next_seq_num changes only in the admission loop,
\* ack_received and base only in a step in which a send_frame thread that
\* was not dropped calls receive_ack; a dropped attempt stays dropped.
C25_FrameEffects ==
  [][/\ (\E s \in Frames : \E i \in 1 .. Len(attempts[s]) :
           attempts[s][i] = "start" /\ attempts'[s][i] = "lost")
        => UNCHANGED <<base, next_seq_num, ack_received>>
     /\ (\E s \in Frames : timer[s] = "armed" /\ timer'[s] = "expired")
        => UNCHANGED <<base, next_seq_num, ack_received>>
     /\ next_seq_num' # next_seq_num => pc = "admit" /\ pc' = "admit"
     /\ <<ack_received, base>>' # <<ack_received, base>>
        => \E s \in Frames : Delivered(s)
     /\ \A s \in Frames : \A i \in 1 .. Len(attempts[s]) :
          attempts[s][i] = "lost" => attempts'[s][i] = "lost"]_vars

\* C25 witness: an attempt was dropped, its timer expired and started a
\* retransmission, and nothing has been acknowledged.
C25_Witness ==
  /\ base = 0
  /\ \A s \in Frames : ~ack_received[s]
  /\ \E s \in Frames :
       /\ timer[s] = "expired"
       /\ Len(attempts[s]) = 2
       /\ attempts[s][1] = "lost"

\* The pair <<ack_received, base>> after receive_ack(first) followed by
\* receive_ack(second), started from the current state.
AfterAcks(first, second) ==
  LET r == AckResult(ack_received, base, first)
  IN  AckResult(r[1], r[2], second)

\* C26: in every reachable state, for any two distinct admitted seqs a and
\* b, receive_ack(a) then receive_ack(b) leaves the same ack_received and
\* base as receive_ack(b) then receive_ack(a) (next_seq_num is not written
\* by receive_ack).
C26_AcksCommute ==
  \A a, b \in 0 .. next_seq_num - 1 :
    a # b => AfterAcks(a, b) = AfterAcks(b, a)

\* C26 witness: base and base + 1 are both unacknowledged and each has an
\* acknowledgment waiting for the free lock, so either order can happen.
C26_Witness ==
  /\ lock = "free"
  /\ base + 1 < next_seq_num
  /\ ~ack_received[base] /\ ~ack_received[base + 1]
  /\ \E i \in 1 .. Len(attempts[base]) : attempts[base][i] = "delay"
  /\ \E j \in 1 .. Len(attempts[base + 1]) : attempts[base + 1][j] = "delay"

\* C27: the lock is held exactly while run() is inside its admission block,
\* never while run() pauses and never by a thread that waits for a delay or
\* a timer; it is taken only when free; the holder can always take a step;
\* with the lock free, every waiting acknowledgment, every armed timer and
\* a waiting run() can proceed; run() is never stuck before it is done.
C27_NoLockDeadlock ==
  /\ [](/\ lock \in {"free", "run"}
        /\ (lock = "run") <=> (pc = "admit")
        /\ lock = "run" => ENABLED (RunAdmit \/ RunRelease)
        /\ pc # "done" => ENABLED RunStep
        /\ lock = "free" =>
             /\ pc = "acquire" => ENABLED RunAcquire
             /\ \A s \in Frames :
                  /\ timer[s] = "armed" => ENABLED TimerThread(s)
                  /\ \A i \in 1 .. Len(attempts[s]) :
                       attempts[s][i] = "delay" => ENABLED SendFrameAck(s, i))
  /\ [][lock' # lock /\ lock' = "run" => lock = "free" /\ pc = "acquire"]_vars

\* C27 witness: run() pauses with the lock free while one seq waits for its
\* delay and another for its timer only.
C27_Witness ==
  /\ pc = "sleep"
  /\ lock = "free"
  /\ \E s, u \in Frames :
       /\ s # u
       /\ timer[s] = "armed" /\ attempts[s] = <<"lost">>
       /\ attempts[u] = <<"delay">>

\* C28: every admitted seq that is unacknowledged and has no send_frame
\* thread still on its way has an armed timer.
C28_LiveTimer ==
  \A s \in Frames :
    (s < next_seq_num /\ ~ack_received[s] /\ ~AttemptPending(s))
      => timer[s] = "armed"

\* C29: a seq has at most two send_frame threads, the second only after its
\* timer expired; an expired timer stays expired and a timer is armed only
\* by the admission of its seq, so a seq has at most one expiry; a second
\* thread is started only by the step in which the timer expires.
C29_AtMostOneRetransmission ==
  /\ [](\A s \in Frames :
          /\ Len(attempts[s]) <= 2
          /\ Len(attempts[s]) = 2 => timer[s] = "expired")
  /\ [][\A s \in Frames :
          /\ timer[s] = "expired" => timer'[s] = "expired"
          /\ (timer'[s] = "armed" /\ timer[s] # "armed")
               => (timer[s] = "none" /\ next_seq_num = s
                   /\ next_seq_num' = s + 1)
          /\ Len(attempts'[s]) >= Len(attempts[s])
          /\ (Len(attempts'[s]) = 2 /\ Len(attempts[s]) < 2)
               => (Len(attempts[s]) = 1 /\ timer[s] = "armed"
                   /\ timer'[s] = "expired" /\ ~ack_received[s])]_vars

\* C29 witness: both attempts of a seq were dropped and its timer has
\* expired; nothing is left that could send the seq again.
C29_Witness ==
  \E s \in Frames : attempts[s] = <<"lost", "lost">> /\ timer[s] = "expired"

-----------------------------------------------------------------------------
(* Chat server: room membership *)

\* The rooms of rms that hold an entry of writer w.
MemberRooms(rms, w) ==
  { r \in DOMAIN rms : \E e \in rms[r] : e[1] = w }

\* C30: every writer has entries in at most one room, and that room is its
\* joined_room; the step of /join leaves the writer in the room joined and
\* in no other; the step of /leave leaves it in no room.
C30_AtMostOneRoom ==
  /\ [](\A w \in Writers :
          /\ Cardinality(MemberRooms(rooms, w)) <= 1
          /\ MemberRooms(rooms, w) \subseteq {joined_room[w]})
  /\ [][\A w \in Writers :
          /\ Leave(w) => MemberRooms(rooms', w) = {}
          /\ \A room \in RoomNames :
               Join(w, room) => MemberRooms(rooms', w) = {room}]_vars

\* C30 witness: the only client that ever connected joined lobby and then
\* dev: it is in dev, and lobby exists and is empty.
C30_Witness ==
  \E w \in Writers :
    /\ \A x \in Writers \ {w} : handler[x] = "none"
    /\ joined_room[w] = "dev"
    /\ DOMAIN rooms = {"lobby", "dev"}
    /\ rooms["lobby"] = {}
    /\ MemberRooms(rooms, w) = {"dev"}

-----------------------------------------------------------------------------
(* VLSM allocator *)

\* Width of an address in bits (32 in the source); addresses are
\* 0 .. 2^AddressBits - 1 and prefix lengths 0 .. AddressBits.
AddressBits == 5

\* Largest number of requirements in one call.
MaxReqs == 3

\* Requested host counts: an invalid one, the block sizes 4, 8, 16 and 32
\* reached from below and exactly, and one that needs more bits than an
\* address has.
HostChoices == {0, 1, 2, 5, 6, 14, 30, 31}

Pow2(n) ==
  2 ^ n

\* math.ceil(math.log2(needed)), for needed >= 1
RECURSIVE CeilLog2From(_, _)
CeilLog2From(needed, bits) ==
  IF Pow2(bits) >= needed THEN bits ELSE CeilLog2From(needed, bits + 1)

CeilLog2(needed) ==
  CeilLog2From(needed, 0)

\* hosts_to_prefix: raises ValueError for required_hosts < 1, else returns
\* the prefix, which is negative when more than AddressBits bits are needed.
hosts_to_prefix(required_hosts) ==
  IF required_hosts < 1
  THEN [raised |-> TRUE, prefix |-> 0]
  ELSE [raised |-> FALSE,
        prefix |-> AddressBits - CeilLog2(required_hosts + 2)]

\* Stands for an exception where a network is expected.
Raised ==
  [network_address |-> -1, prefixlen |-> -1]

\* ipaddress.IPv4Network((address, prefix), strict=False): raises when the
\* address or the prefix is out of range, else the network with the host
\* bits of address cleared.
IPv4Network(address, prefix) ==
  IF address \notin 0 .. Pow2(AddressBits) - 1 \/ prefix \notin 0 .. AddressBits
  THEN Raised
  ELSE [network_address |-> address - (address % Pow2(AddressBits - prefix)),
        prefixlen |-> prefix]

num_addresses(net) ==
  Pow2(AddressBits - net.prefixlen)

broadcast_address(net) ==
  net.network_address + num_addresses(net) - 1

\* The networks ipaddress can represent: aligned to their size.
Networks ==
  { IPv4Network(a, p) : a \in 0 .. Pow2(AddressBits) - 1,
                        p \in 0 .. AddressBits }

\* The sequences over S of length at most n.
SeqsUpTo(S, n) ==
  UNION { [1 .. k -> S] : k \in 0 .. n }

\* sorted(..., key=lambda x: (-x[0], x[1])) of a set of <<req, idx>> pairs
RECURSIVE SortedReqs(_)
SortedReqs(pairs) ==
  IF pairs = {}
  THEN <<>>
  ELSE LET first == CHOOSE x \in pairs :
                      \A y \in pairs :
                        \/ x[1] > y[1]
                        \/ x[1] = y[1] /\ x[2] <= y[2]
       IN  <<first>> \o SortedReqs(pairs \ {first})

\* allocate_vlsm(base_net, requirements) is called, for any network and
\* any list of at most MaxReqs host counts.
VlsmInit ==
  /\ base_net \in Networks
  /\ requirements \in SeqsUpTo(HostChoices, MaxReqs)
  /\ reqs = <<>>
  /\ allocations = <<>>
  /\ current_address = 0
  /\ results = <<>>
  /\ vlsm_pc = "start"
  /\ ArqIdle /\ DvIdle /\ OspfIdle /\ ChatIdle

\* Lines 64-72: the requirements are sorted largest first, with their index
\* counted from 0, and the allocation starts at the network address.
VlsmStart ==
  /\ vlsm_pc = "start"
  /\ reqs' = SortedReqs({ <<requirements[i], i - 1>> :
                            i \in 1 .. Len(requirements) })
  /\ current_address' = base_net.network_address
  /\ vlsm_pc' = "loop"
  /\ UNCHANGED <<base_net, requirements, allocations, results>>
  /\ UNCHANGED <<arqVars, dvVars, ospfVars, chatVars>>

\* Faulty variant: only the lower end of the candidate is compared.
DoesNotFitLowerOnly(candidate) ==
  candidate.network_address < base_net.network_address

\* The test of line 83
DoesNotFit(candidate) ==
  \/ candidate.network_address < base_net.network_address
  \/ broadcast_address(candidate) > broadcast_address(base_net)

\* Lines 90-100: a candidate that starts below current_address is moved up
\* to the next boundary of its size; raises when that leaves the base
\* network or the address space.
Aligned(candidate) ==
  IF candidate.network_address < current_address
  THEN LET step == num_addresses(candidate)
           base_int == candidate.network_address
           k == (current_address - base_int + step - 1) \div step
           moved == IPv4Network(base_int + k * step, candidate.prefixlen)
       IN  IF moved = Raised
           THEN Raised
           ELSE IF broadcast_address(moved) > broadcast_address(base_net)
                THEN Raised
                ELSE moved
  ELSE candidate

\* The subnet one iteration of the loop allocates for req_hosts
\* (lines 75-100), or Raised when the iteration raises.
Allocate(req_hosts) ==
  LET p == hosts_to_prefix(req_hosts)
  IN  IF p.raised
      THEN Raised
      ELSE LET candidate == IPv4Network(current_address, p.prefix)
           IN  IF candidate = Raised
               THEN Raised
               ELSE IF DoesNotFit(candidate)
                    THEN Raised
                    ELSE Aligned(candidate)

\* One iteration of the loop of lines 74-106: the subnet is appended and
\* current_address moves behind it, or the call ends with an exception.
VlsmAllocate ==
  /\ vlsm_pc = "loop"
  /\ reqs # <<>>
  /\ LET req_hosts == Head(reqs)[1]
         orig_idx == Head(reqs)[2]
         subnet == Allocate(req_hosts)
     IN  IF subnet = Raised
         THEN /\ vlsm_pc' = "raised"
              /\ UNCHANGED <<reqs, allocations, current_address>>
         ELSE /\ allocations' = Append(allocations,
                                       <<orig_idx, subnet, req_hosts>>)
              /\ current_address' = broadcast_address(subnet) + 1
              /\ reqs' = Tail(reqs)
              /\ vlsm_pc' = "loop"
  /\ UNCHANGED <<base_net, requirements, results>>
  /\ UNCHANGED <<arqVars, dvVars, ospfVars, chatVars>>

\* Lines 110-133: the loop is over and the allocations are returned, in
\* allocation order.
VlsmReturn ==
  /\ vlsm_pc = "loop"
  /\ reqs = <<>>
  /\ results' = [i \in 1 .. Len(allocations) |->
                   [subnet_id |-> i,
                    orig_index |-> allocations[i][1],
                    network |-> allocations[i][2].network_address,
                    prefix |-> allocations[i][2].prefixlen,
                    broadcast |-> broadcast_address(allocations[i][2]),
                    total_addresses |-> num_addresses(allocations[i][2]),
                    requested_hosts |-> allocations[i][3]]]
  /\ vlsm_pc' = "returned"
  /\ UNCHANGED <<base_net, requirements, reqs, allocations, current_address>>
  /\ UNCHANGED <<arqVars, dvVars, ospfVars, chatVars>>

VlsmNext ==
  VlsmStart \/ VlsmAllocate \/ VlsmReturn

VlsmSpec ==
  VlsmInit /\ [][VlsmNext]_vars

\* C21: when allocate_vlsm has returned, there is one subnet per
\* requirement, each subnet lies inside base_net and has room for the hosts
\* requested plus the network and broadcast addresses, and no two subnets
\* share an address; when it has raised, nothing was returned.  So
\* requirements that do not fit end in an exception.
C21_VlsmDisjointInsideBase ==
  /\ vlsm_pc = "returned" =>
       /\ Len(results) = Len(requirements)
       /\ { results[i].orig_index : i \in 1 .. Len(results) }
            = 0 .. Len(requirements) - 1
       /\ \A i \in 1 .. Len(results) :
            /\ results[i].requested_hosts
                 = requirements[results[i].orig_index + 1]
            /\ results[i].total_addresses >= results[i].requested_hosts + 2
            /\ results[i].broadcast
                 = results[i].network + results[i].total_addresses - 1
            /\ results[i].network >= base_net.network_address
            /\ results[i].broadcast <= broadcast_address(base_net)
       /\ \A i, j \in 1 .. Len(results) :
            i # j => \/ results[i].broadcast < results[j].network
                     \/ results[j].broadcast < results[i].network
  /\ vlsm_pc # "returned" => results = <<>>

\* C21 witness: three subnets were returned and fill the base network
\* exactly.
C21_Witness ==
  /\ vlsm_pc = "returned"
  /\ Len(results) = 3
  /\ results[1].network = base_net.network_address
  /\ results[3].broadcast = broadcast_address(base_net)
  /\ results[1].total_addresses > results[3].total_addresses

-----------------------------------------------------------------------------
(* Chat server: recipients of a broadcast *)

\* The writers that have an entry in room of rms.
RoomWriters(rms, room) ==
  { e[1] : e \in rms[room] }

\* C31: in every step in which broadcast() called for writer w writes the
\* message to a recipient (on entry from /msg, or on resuming after the
\* drain of the previous recipient), the recipient is not w and has an
\* entry in the room of w at that moment.
C31_BroadcastToMembersOnly ==
  [][\A w \in Writers :
       ((Msg(w) \/ BroadcastResume(w)) /\ recipient'[w] # "None")
         => /\ recipient'[w] # w
            /\ recipient'[w] \in RoomWriters(rooms', joined_room[w])]_vars

-----------------------------------------------------------------------------
(* Distance vector: stored distances *)

\* The distance stored by node for dest is at most 50, or INFINITY.
BoundedOrInfinity(node, dest) ==
  \/ node.distance_vector[dest] <= 50
  \/ node.distance_vector[dest] = INFINITY

\* A destination stored as INFINITY has no next hop.
InfinityHasNoHop(node, dest) ==
  node.distance_vector[dest] = INFINITY => node.routing_table[dest] = "None"

\* No distance stored before the step is larger after it.
NeverIncreases ==
  \A name \in NodeSet : \A dest \in DOMAIN nodes[name].distance_vector :
    /\ dest \in DOMAIN nodes'[name].distance_vector
    /\ nodes'[name].distance_vector[dest] <= nodes[name].distance_vector[dest]

=============================================================================
